---- MODULE Spec2Model ----
(***************************************************************************)
(* GenMOF pipeline: the three LLM agents of agents.py, their JSON repair   *)
(* parsing, the summarizer, the scoring formula of the Agent 3 prompt and  *)
(* the per-document loop of app.py.                                        *)
(*                                                                         *)
(* Text is modelled as a sequence of lexical units (tokens): one token per *)
(* structural character, per digit, per letter run, per string literal,    *)
(* per whitespace character and per code-fence marker.                     *)
(***************************************************************************)
EXTENDS Integers, Sequences, FiniteSets, TLC

VARIABLES
    pc,               \* position of the modelled run
    raw,              \* the completion returned by call_llm
    shape,            \* how raw was built: "any", "prose" or "fenced"
    lead,             \* shape "prose": the leading prose; "fenced": the opening line
    body,             \* shape "prose"/"fenced": the embedded JSON text
    agent,            \* which agent parsed raw (0: none yet)
    result,           \* what the agent returned or raised
    mof_entry,        \* the record handed to summarize_mof_for_application
    digest,           \* what summarize_mof_for_application produced
    kpi,              \* the five KPI percentages of one application candidate
    score,            \* raw_score and suitability_score_percent computed from kpi
    doc,              \* index of the uploaded file the loop is at
    a1,               \* app.py: a1
    entries,          \* app.py: entries
    app_predictions,  \* app.py: app_predictions
    rendered,         \* what st.json showed for app_predictions, per document
    log,              \* the stages invoked so far, as <<document, stage>>
    cause,            \* why the script run stopped early ("" while it has not)
    title,            \* agent1_filter_and_detect: title
    input_text,       \* text_snippet of Agent 1, full_text of Agent 2
    messages          \* the messages handed to call_llm

vars == <<pc, raw, shape, lead, body, agent, result, mof_entry, digest, kpi,
          score, doc, a1, entries, app_predictions, rendered, log, cause,
          title, input_text, messages>>

parseVars == <<raw, shape, lead, body, agent, result>>
summaryVars == <<mof_entry, digest>>
scoreVars == <<kpi, score>>
pipelineVars == <<doc, a1, entries, app_predictions, rendered, log, cause>>
promptVars == <<title, input_text, messages>>

(***************************************************************************)
(* Bounds of the model.                                                    *)
(***************************************************************************)
MaxLen == 3
MaxProse == 2
MaxTag == 2
KpiSteps == 4
NumDocs == 2

(***************************************************************************)
(* Tokens.                                                                 *)
(***************************************************************************)
\* The three-backquote marker that opens or closes a fenced code block.
Fence == "FENCE"
Newline == "\n"
Space == " "
Whitespace == {Space, Newline}
Digit == "1"
Letters == {"a", "true", "false", "null"}
\* Each of these tokens is one double-quoted JSON string literal, named by its content.
StringTokens == {"s", "is_mof_paper", "application_candidates",
                 "best_application", "uncertainties", "article_info",
                 "surface_properties", "surface_area_m2_per_g"}

Min(S) == CHOOSE x \in S : \A y \in S : x <= y
Max(S) == CHOOSE x \in S : \A y \in S : x >= y

SeqsUpTo(S, n) == UNION {[1..k -> S] : k \in 0..n}

Contains(s, tok) == \E i \in 1..Len(s) : s[i] = tok

(***************************************************************************)
(* JSON values, as json.loads builds them.  Every value is a record of the *)
(* same shape: t is its type, text the tokens of a scalar, keys and items  *)
(* the keys and values of an object (items alone: the elements of an       *)
(* array).                                                                 *)
(***************************************************************************)
Scalar(t, text) == [t |-> t, text |-> text, keys |-> <<>>, items |-> <<>>]
Array(items) == [t |-> "arr", text |-> <<>>, keys |-> <<>>, items |-> items]
Object(keys, items) == [t |-> "obj", text |-> <<>>, keys |-> keys, items |-> items]
None == Scalar("null", <<>>)

HasKey(v, k) == v.t = "obj" /\ \E i \in 1..Len(v.keys) : v.keys[i] = k
Lookup(v, k) == v.items[CHOOSE i \in 1..Len(v.keys) : v.keys[i] = k]

\* dict[k] = v: a repeated key keeps its place and takes the last value.
DictPut(keys, items, k, v) ==
    IF \E i \in 1..Len(keys) : keys[i] = k
    THEN [keys |-> keys,
          items |-> [i \in 1..Len(items) |-> IF keys[i] = k THEN v ELSE items[i]]]
    ELSE [keys |-> Append(keys, k), items |-> Append(items, v)]

\* str.strip() and the decoder's whitespace skipping.
SkipWs(s, i) == Min({j \in i..(Len(s) + 1) : j = Len(s) + 1 \/ s[j] \notin Whitespace})
SkipDigits(s, i) == Min({j \in i..(Len(s) + 1) : j = Len(s) + 1 \/ s[j] # Digit})
LastNonWs(s) == Max({j \in 0..Len(s) : j = 0 \/ s[j] \notin Whitespace})
Strip(s) == IF SkipWs(s, 1) > Len(s) THEN <<>> ELSE SubSeq(s, SkipWs(s, 1), LastNonWs(s))

NoParse == [ok |-> FALSE, val |-> None, next |-> 0]
Parsed(v, n) == [ok |-> TRUE, val |-> v, next |-> n]

RECURSIVE ParseValue(_, _), ParseArrayItems(_, _, _), ParseObjectMembers(_, _, _, _)

\* One value starting at s[i] (whitespace already skipped).
ParseValue(s, i) ==
    IF i > Len(s) THEN NoParse
    ELSE IF s[i] \in StringTokens THEN Parsed(Scalar("str", <<s[i]>>), i + 1)
    ELSE IF s[i] = Digit
         THEN Parsed(Scalar("num", SubSeq(s, i, SkipDigits(s, i) - 1)), SkipDigits(s, i))
    ELSE IF s[i] \in {"true", "false"} THEN Parsed(Scalar("bool", <<s[i]>>), i + 1)
    ELSE IF s[i] = "null" THEN Parsed(None, i + 1)
    ELSE IF s[i] = "["
         THEN IF SkipWs(s, i + 1) <= Len(s) /\ s[SkipWs(s, i + 1)] = "]"
              THEN Parsed(Array(<<>>), SkipWs(s, i + 1) + 1)
              ELSE ParseArrayItems(s, SkipWs(s, i + 1), <<>>)
    ELSE IF s[i] = "{"
         THEN IF SkipWs(s, i + 1) <= Len(s) /\ s[SkipWs(s, i + 1)] = "}"
              THEN Parsed(Object(<<>>, <<>>), SkipWs(s, i + 1) + 1)
              ELSE ParseObjectMembers(s, SkipWs(s, i + 1), <<>>, <<>>)
    ELSE NoParse

ParseArrayItems(s, i, acc) ==
    LET r == ParseValue(s, i)
        j == SkipWs(s, r.next)
    IN  IF ~r.ok \/ j > Len(s) THEN NoParse
        ELSE IF s[j] = "," THEN ParseArrayItems(s, SkipWs(s, j + 1), Append(acc, r.val))
        ELSE IF s[j] = "]" THEN Parsed(Array(Append(acc, r.val)), j + 1)
        ELSE NoParse

ParseObjectMembers(s, i, keys, items) ==
    IF i > Len(s) \/ s[i] \notin StringTokens THEN NoParse
    ELSE LET c == SkipWs(s, i + 1)
         IN  IF c > Len(s) \/ s[c] # ":" THEN NoParse
             ELSE LET r == ParseValue(s, SkipWs(s, c + 1))
                      j == SkipWs(s, r.next)
                      d == DictPut(keys, items, s[i], r.val)
                  IN  IF ~r.ok \/ j > Len(s) THEN NoParse
                      ELSE IF s[j] = ","
                           THEN ParseObjectMembers(s, SkipWs(s, j + 1), d.keys, d.items)
                      ELSE IF s[j] = "}" THEN Parsed(Object(d.keys, d.items), j + 1)
                      ELSE NoParse

\* json.loads(s): one value, whitespace around it, nothing else; ok = FALSE
\* stands for the JSONDecodeError it raises.
json_loads(s) ==
    LET r == ParseValue(s, SkipWs(s, 1))
    IN  IF r.ok /\ SkipWs(s, r.next) = Len(s) + 1 THEN r ELSE NoParse

(***************************************************************************)
(* Python's str.find, str.rfind and slicing s[start:end].                  *)
(***************************************************************************)
Find(s, tok) == IF Contains(s, tok) THEN Min({i \in 1..Len(s) : s[i] = tok}) - 1 ELSE -1
RFind(s, tok) == IF Contains(s, tok) THEN Max({i \in 1..Len(s) : s[i] = tok}) - 1 ELSE -1

\* s[start:end] with 0-based bounds; a negative bound counts from the end.
Slice(s, start, end) ==
    LET norm(k) == IF k < 0 THEN (IF Len(s) + k < 0 THEN 0 ELSE Len(s) + k)
                   ELSE (IF k > Len(s) THEN Len(s) ELSE k)
    IN  IF norm(start) >= norm(end) THEN <<>> ELSE SubSeq(s, norm(start) + 1, norm(end))

(***************************************************************************)
(* What a call returned or raised.  path is the return statement taken.    *)
(***************************************************************************)
Returned(v, path) == [kind |-> "return", val |-> v, path |-> path, raw_response |-> <<>>]
Raised(path) == [kind |-> "raise", val |-> None, path |-> path, raw_response |-> <<>>]
NoResult == [kind |-> "none", val |-> None, path |-> "", raw_response |-> <<>>]

\* The failure mapping of Agent 3: {"parse_error": ..., "raw_response": raw}.
Failure(r, path) ==
    [kind |-> "return",
     val |-> Object(<<"parse_error", "raw_response">>,
                    <<Scalar("str", <<"Could not parse Agent 3 JSON">>), Scalar("str", r)>>),
     path |-> path, raw_response |-> r]

\* raw[start:end] of Agent 1: from the first "{" to the last "}".
BraceSliceOffByOne(r) == Slice(r, Find(r, "{"), RFind(r, "}"))
BraceSlice(r) == Slice(r, Find(r, "{"), RFind(r, "}") + 1)

\* raw[start:end] of Agent 2: from the first "[" to the last "]".
BracketSlice(r) == Slice(r, Find(r, "["), RFind(r, "]") + 1)

agent1_filter_and_detect(r) ==
    IF json_loads(r).ok THEN Returned(json_loads(r).val, "direct")
    ELSE IF json_loads(BraceSlice(r)).ok
         THEN Returned(json_loads(BraceSlice(r)).val, "slice")
         ELSE Raised("slice")

agent2_extract_parameters(r) ==
    IF json_loads(r).ok THEN Returned(json_loads(r).val, "direct")
    ELSE IF json_loads(BracketSlice(r)).ok
         THEN Returned(json_loads(BracketSlice(r)).val, "slice")
         ELSE Raised("slice")

\* re.sub(r"^FENCE[a-zA-Z]*\n", "", s): the opening marker, a run of letters and
\* a newline are removed when s starts that way, and s is left alone otherwise.
SkipLetters(s, i) == Min({j \in i..(Len(s) + 1) : j = Len(s) + 1 \/ s[j] \notin Letters})
StripOpeningFenceNoTag(s) ==
    IF Len(s) >= 2 /\ s[2] = Newline THEN SubSeq(s, 3, Len(s)) ELSE s
StripOpeningFence(s) ==
    LET n == SkipLetters(s, 2)
    IN  IF n <= Len(s) /\ s[n] = Newline THEN SubSeq(s, n + 1, Len(s)) ELSE s

try_parse(s0) ==
    LET s == Strip(s0)
        opened == StripOpeningFence(s)
        closed == IF Len(opened) > 0 /\ opened[Len(opened)] = Fence
                  THEN SubSeq(opened, 1, Len(opened) - 1) ELSE opened
    IN  IF Len(s) > 0 /\ s[1] = Fence THEN json_loads(closed) ELSE json_loads(s)

\* re.search(r"\{.*\}", raw, re.S): greedy, from the first "{" to the last "}"
\* after it; no match when no "}" follows a "{".
RegexHasMatch(r) == Contains(r, "{") /\ RFind(r, "}") > Find(r, "{")
RegexMatch(r) == Slice(r, Find(r, "{"), RFind(r, "}") + 1)

agent3_parse(r) ==
    IF try_parse(r).ok THEN Returned(try_parse(r).val, "direct")
    ELSE IF RegexHasMatch(r)
         THEN IF try_parse(RegexMatch(r)).ok
              THEN Returned(try_parse(RegexMatch(r)).val, "regex")
              ELSE Failure(r, "could_not_parse")
         ELSE Failure(r, "no_json_object")

(***************************************************************************)
(* ParseSpec: one completion comes back from call_llm and one of the three *)
(* agents parses it.  The completions are every token sequence of at most  *)
(* MaxLen tokens, every prose-then-JSON reply and every fenced reply.      *)
(***************************************************************************)
AnyTokens == {"{", "}", "[", "]", ",", ":", Digit, "s", "a", "true", Fence, Newline}
ProseTokens == {"a", Space, Digit, "{", "}", "[", "]"}
TagTokens == {"a", Digit, Space}

EmptyObject == <<"{", "}">>
RelevantObject == <<"{", "is_mof_paper", ":", "true", "}">>
NestedObject == <<"{", "s", ":", "[", Digit, ",", "{", "}", "]", "}">>
ScoringObject == <<"{", "application_candidates", ":", "[", "]", ",",
                   "best_application", ":", "{", "}", ",",
                   "uncertainties", ":", "s", "}">>
EmbeddedObjects == {EmptyObject, RelevantObject, NestedObject, ScoringObject}
EmbeddedArrays == {<<"[", "]">>, <<"[", "{", "}", "]">>,
                   <<"[", Digit, ",", "[", "]", "]">>,
                   <<"[", "{", "s", ":", Digit, "}", ",", Space, "{", "}", "]">>}

FenceOpenings == {<<Fence>> \o tag \o sep : tag \in SeqsUpTo(TagTokens, MaxTag),
                                          sep \in {<<>>, <<Newline>>}}
FenceClosings == {<<Fence>>, <<Newline, Fence>>, <<Newline, Fence, Newline>>}

\* What the variables of the other specifications hold while one runs.
NoDigest == [kind |-> "none", text |-> <<>>, shown |-> <<>>]
IdleParse ==
    /\ raw = <<>> /\ shape = "" /\ lead = <<>> /\ body = <<>>
    /\ agent = 0 /\ result = NoResult
IdleSummary == mof_entry = None /\ digest = NoDigest
IdleScore == kpi = <<>> /\ score = <<>>
IdlePipeline ==
    /\ doc = 0 /\ a1 = NoResult /\ entries = NoResult /\ app_predictions = NoResult
    /\ rendered = <<>> /\ log = <<>> /\ cause = ""
IdlePrompt == title = <<>> /\ input_text = <<>> /\ messages = <<>>

ParseInit ==
    /\ pc = "reply"
    /\ agent = 0
    /\ result = NoResult
    /\ \/ /\ shape = "any"
          /\ raw \in SeqsUpTo(AnyTokens, MaxLen)
          /\ lead = <<>> /\ body = <<>>
       \/ /\ shape = "prose"
          /\ lead \in SeqsUpTo(ProseTokens, MaxProse)
          /\ body \in EmbeddedObjects \cup EmbeddedArrays
          /\ raw = lead \o body
       \/ /\ shape = "fenced"
          /\ lead \in FenceOpenings
          /\ body \in EmbeddedObjects
          /\ \E pre \in {<<>>, <<Space>>}, close \in FenceClosings :
                raw = pre \o lead \o body \o close
    /\ IdleSummary /\ IdleScore /\ IdlePipeline /\ IdlePrompt

Agent1Parses ==
    /\ pc = "reply"
    /\ agent' = 1
    /\ result' = agent1_filter_and_detect(raw)
    /\ pc' = "parsed"
    /\ UNCHANGED <<raw, shape, lead, body, summaryVars, scoreVars, pipelineVars, promptVars>>

Agent2Parses ==
    /\ pc = "reply"
    /\ agent' = 2
    /\ result' = agent2_extract_parameters(raw)
    /\ pc' = "parsed"
    /\ UNCHANGED <<raw, shape, lead, body, summaryVars, scoreVars, pipelineVars, promptVars>>

Agent3Parses ==
    /\ pc = "reply"
    /\ agent' = 3
    /\ result' = agent3_parse(raw)
    /\ pc' = "parsed"
    /\ UNCHANGED <<raw, shape, lead, body, summaryVars, scoreVars, pipelineVars, promptVars>>

ParseNext == Agent1Parses \/ Agent2Parses \/ Agent3Parses

ParseSpec == ParseInit /\ [][ParseNext]_vars

(***************************************************************************)
(* Claims about the agents' parsing (ParseSpec).                           *)
(***************************************************************************)
IsScoringResult(v) ==
    /\ HasKey(v, "application_candidates")
    /\ HasKey(v, "best_application")
    /\ HasKey(v, "uncertainties")

IsFailureMapping(v, r) ==
    /\ HasKey(v, "parse_error")
    /\ HasKey(v, "raw_response")
    /\ Lookup(v, "raw_response") = Scalar("str", r)

\* C1: Agent 3 always returns, and what it returns is a ScoringResult mapping or
\* the failure mapping {parse_error, raw_response = raw}; nothing else.
C1_TwoShapesOnly ==
    (pc = "parsed" /\ agent = 3) =>
        /\ result.kind = "return"
        /\ IsScoringResult(result.val) \/ IsFailureMapping(result.val, raw)

\* C2: Agent 1 raises or returns a mapping whose is_mof_paper is a boolean.
C2_BooleanOrRaise ==
    (pc = "parsed" /\ agent = 1) =>
        \/ result.kind = "raise"
        \/ /\ HasKey(result.val, "is_mof_paper")
           /\ Lookup(result.val, "is_mof_paper").t = "bool"

\* C3: Agent 2 raises or returns an array of mappings, and the reply [] gives
\* the empty array without raising.
C3_SequenceOrRaise ==
    (pc = "parsed" /\ agent = 2) =>
        /\ \/ result.kind = "raise"
           \/ /\ result.val.t = "arr"
              /\ \A i \in 1..Len(result.val.items) : result.val.items[i].t = "obj"
        /\ raw = <<"[", "]">> => (result.kind = "return" /\ result.val = Array(<<>>))

\* The opening line of a fenced block as the code's pattern wants it: the
\* marker, letters only, then a newline.
LettersThenNewline(open) ==
    /\ open[Len(open)] = Newline
    /\ \A i \in 2..(Len(open) - 1) : open[i] \in Letters

\* C8 as stated: every fenced single object is parsed by the first attempt.
C8_EveryFenceFirstAttempt ==
    (pc = "parsed" /\ agent = 3 /\ shape = "fenced") =>
        result = Returned(json_loads(body).val, "direct")

\* C8 as amended: a fenced single object whose opening marker is followed by
\* letters only (or nothing) and then a newline is parsed by the first attempt,
\* never by the regex fallback.
C8_FenceFirstAttempt ==
    (pc = "parsed" /\ agent = 3 /\ shape = "fenced" /\ LettersThenNewline(lead)) =>
        result = Returned(json_loads(body).val, "direct")

C8_Witness ==
    /\ pc = "parsed" /\ agent = 3 /\ shape = "fenced"
    /\ lead = <<Fence, "a", Newline>>
    /\ body = ScoringObject
    /\ result.path = "direct"
    /\ IsScoringResult(result.val)

\* C9 as stated: after any leading prose, Agent 1 returns the embedded object
\* and Agent 2 the embedded array.
C9_AnyProseThenJson ==
    (pc = "parsed" /\ shape = "prose") =>
        /\ (agent = 1 /\ body \in EmbeddedObjects) =>
               (result.kind = "return" /\ result.val = json_loads(body).val)
        /\ (agent = 2 /\ body \in EmbeddedArrays) =>
               (result.kind = "return" /\ result.val = json_loads(body).val)

\* C9 as amended: the same, for prose that holds no "{" (Agent 1) and no "["
\* (Agent 2).
C9_ProseThenJson ==
    (pc = "parsed" /\ shape = "prose") =>
        /\ (agent = 1 /\ body \in EmbeddedObjects /\ ~Contains(lead, "{")) =>
               (result.kind = "return" /\ result.val = json_loads(body).val)
        /\ (agent = 2 /\ body \in EmbeddedArrays /\ ~Contains(lead, "[")) =>
               (result.kind = "return" /\ result.val = json_loads(body).val)

C9_Witness ==
    /\ pc = "parsed" /\ agent = 1 /\ shape = "prose"
    /\ lead = <<"a", "[">>
    /\ body = RelevantObject
    /\ result.path = "slice"
    /\ Lookup(result.val, "is_mof_paper") = Scalar("bool", <<"true">>)

(***************************************************************************)
(* summarize_mof_for_application.                                          *)
(***************************************************************************)
Str(c) == Scalar("str", <<c>>)
Num(c) == Scalar("num", <<c>>)

\* Python truth value of a JSON value (the left operand of "or 0").
Truthy(v) ==
    CASE v.t = "null" -> FALSE
      [] v.t = "bool" -> v.text = <<"true">>
      [] v.t = "num" -> \E i \in 1..Len(v.text) : v.text[i] # "0"
      [] v.t = "str" -> v.text # <<"">>
      [] OTHER -> Len(v.items) > 0

\* str(v) inside an f-string, as tokens.  (The digest's degree sign and en dash
\* are written " C" and "-" below.)
Format(v) ==
    CASE v.t = "null" -> <<"None">>
      [] v.t = "bool" -> IF v.text = <<"true">> THEN <<"True">> ELSE <<"False">>
      [] v.t \in {"num", "str"} -> v.text
      [] v.t = "arr" -> <<"[...]">>
      [] OTHER -> <<"{...}">>

\* The {} default of mof_entry.get(section, {}).
EmptyDictForgotten == None
EmptyDict == Object(<<>>, <<>>)

\* m.get(k, d) on a dict m.
DictGetNoDefault(m, k, d) == IF HasKey(m, k) THEN Lookup(m, k) ELSE None
DictGet(m, k, d) == IF HasKey(m, k) THEN Lookup(m, k) ELSE d

\* m.get(k, 0) or 0
GetOrZero(m, k) == IF Truthy(DictGet(m, k, Num("0"))) THEN DictGet(m, k, Num("0")) ELSE Num("0")

\* morphology is fetched and never read; each of the other eight subsections
\* has its .get called, which raises AttributeError when the subsection is
\* present and is not a dict.
summarize_mof_for_application(e) ==
    LET ai == DictGet(e, "article_info", EmptyDict)
        reac == DictGet(e, "reactants", EmptyDict)
        cond == DictGet(e, "synthesis_conditions", EmptyDict)
        therm == DictGet(e, "thermal_properties", EmptyDict)
        surf == DictGet(e, "surface_properties", EmptyDict)
        chem == DictGet(e, "chemical_properties", EmptyDict)
        struct == DictGet(e, "structure", EmptyDict)
        appl == DictGet(e, "application", EmptyDict)
        name == DictGet(ai, "material_name", Str("unnamed material"))
        doi == DictGet(ai, "doi", Str("not_specified"))
        linker == DictGet(reac, "organic_linker_name", Str("not_specified"))
        metal == DictGet(reac, "metal_node_name", Str("not_specified"))
        temp == GetOrZero(cond, "reaction_temperature_celsius")
        time_s == GetOrZero(cond, "reaction_time_seconds")
        steps == GetOrZero(cond, "stepwise_segmentation")
        sa == GetOrZero(surf, "surface_area_m2_per_g")
        tga == GetOrZero(therm, "breakdown_temperature_celsius")
        ph_min == GetOrZero(chem, "ph_range_min")
        ph_max == GetOrZero(chem, "ph_range_max")
        dim == DictGet(struct, "dimensionality", Str("not_specified"))
        nano == DictGet(struct, "nanocrystalline", Str("not_specified"))
        amorph == DictGet(struct, "amorphous", Str("not_specified"))
        application == DictGet(appl, "application", Str("not_specified"))
        summary_lines == <<
            <<"Material name: ">> \o Format(name) \o <<" (DOI: ">> \o Format(doi) \o <<").">>,
            <<"Metal node: ">> \o Format(metal) \o <<"; organic linker: ">>
                \o Format(linker) \o <<".">>,
            <<"Synthesis: temperature ~">> \o Format(temp) \o <<" C, time ~">>
                \o Format(time_s) \o <<" s, stepwise segmentation = ">> \o Format(steps)
                \o <<".">>,
            <<"Surface area: ">> \o Format(sa) \o <<" m2/g (higher is better for adsorption).">>,
            <<"Thermal stability (breakdown temperature): ~">> \o Format(tga) \o <<" C.">>,
            <<"Reported pH stability range: ">> \o Format(ph_min) \o <<"-">>
                \o Format(ph_max) \o <<".">>,
            <<"Structure: dimensionality = ">> \o Format(dim) \o <<", nanocrystalline = ">>
                \o Format(nano) \o <<", amorphous = ">> \o Format(amorph) \o <<".">>,
            <<"Reported primary application: ">> \o Format(application) \o <<".">> >>
    IN  IF e.t # "obj" \/ \E x \in {ai, reac, cond, therm, surf, chem, struct, appl} : x.t # "obj"
        THEN [kind |-> "raise", text |-> <<>>, shown |-> <<>>]
        ELSE [kind |-> "return",
              text |-> summary_lines,
              shown |-> [name |-> Format(name), doi |-> Format(doi),
                         metal |-> Format(metal), linker |-> Format(linker),
                         temp |-> Format(temp), time_s |-> Format(time_s),
                         steps |-> Format(steps), sa |-> Format(sa), tga |-> Format(tga),
                         ph_min |-> Format(ph_min), ph_max |-> Format(ph_max),
                         dim |-> Format(dim), nano |-> Format(nano),
                         amorph |-> Format(amorph), application |-> Format(application)]]

(***************************************************************************)
(* SummarizeSpec: one record is handed to summarize_mof_for_application.   *)
(* The records: every choice of absent / empty / complete for each of the  *)
(* nine subsections; the complete record less any set of the keys the      *)
(* function reads; the complete record with one numeric field null; and    *)
(* the complete record with one subsection that is not a mapping.          *)
(***************************************************************************)
Sections == <<"article_info", "reactants", "synthesis_conditions", "morphology",
              "thermal_properties", "surface_properties", "chemical_properties",
              "structure", "application">>
SectionSet == {Sections[i] : i \in 1..Len(Sections)}

\* The schema of the Agent 2 prompt.
SchemaKeys(sec) ==
    CASE sec = "article_info" -> <<"doi", "title", "material_name">>
      [] sec = "reactants" ->
            <<"organic_linker_name", "organic_linker_quantity_mg", "metal_node_name",
              "metal_node_quantity_mg", "solvent_name", "solvent_quantity_ml">>
      [] sec = "synthesis_conditions" ->
            <<"reaction_time_seconds", "reaction_temperature_celsius", "stirring",
              "total_reaction_time_seconds", "stepwise_segmentation", "ratio_components",
              "annealing_time_seconds", "annealing_temperature_celsius">>
      [] sec = "morphology" -> <<"pore_size_nm", "pore_width_nm", "pore_distribution_nm">>
      [] sec = "thermal_properties" -> <<"breakdown_temperature_celsius">>
      [] sec = "surface_properties" -> <<"surface_area_m2_per_g", "functional_groups">>
      [] sec = "chemical_properties" -> <<"ph_range_min", "ph_range_max">>
      [] sec = "structure" ->
            <<"nanocrystalline", "amorphous", "polar", "nonpolar", "dimensionality">>
      [] OTHER -> <<"application">>

NumericKeys == {"organic_linker_quantity_mg", "metal_node_quantity_mg",
                "solvent_quantity_ml", "reaction_time_seconds",
                "reaction_temperature_celsius", "total_reaction_time_seconds",
                "stepwise_segmentation", "annealing_time_seconds",
                "annealing_temperature_celsius", "pore_size_nm", "pore_width_nm",
                "breakdown_temperature_celsius", "surface_area_m2_per_g",
                "ph_range_min", "ph_range_max"}

\* The fields the digest shows, as <<subsection, key>>.
TextFields == {<<"article_info", "material_name">>, <<"article_info", "doi">>,
               <<"reactants", "metal_node_name">>, <<"reactants", "organic_linker_name">>,
               <<"structure", "dimensionality">>, <<"structure", "nanocrystalline">>,
               <<"structure", "amorphous">>, <<"application", "application">>}
NumberFields == {<<"synthesis_conditions", "reaction_temperature_celsius">>,
                 <<"synthesis_conditions", "reaction_time_seconds">>,
                 <<"synthesis_conditions", "stepwise_segmentation">>,
                 <<"surface_properties", "surface_area_m2_per_g">>,
                 <<"thermal_properties", "breakdown_temperature_celsius">>,
                 <<"chemical_properties", "ph_range_min">>,
                 <<"chemical_properties", "ph_range_max">>}
FieldsRead == TextFields \cup NumberFields

FieldValue(sec, k, nulls) ==
    IF <<sec, k>> \in nulls THEN None
    ELSE IF k \in NumericKeys THEN Num(Digit) ELSE Str("s")

SectionValue(sec, how, missing, nulls) ==
    CASE how = "empty" -> Object(<<>>, <<>>)
      [] how = "null" -> None
      [] how = "text" -> Str("s")
      [] OTHER ->
            LET ks == SelectSeq(SchemaKeys(sec), LAMBDA k : <<sec, k>> \notin missing)
            IN  Object(ks, [i \in 1..Len(ks) |-> FieldValue(sec, ks[i], nulls)])

\* how[sec] is "absent", "empty", "full", or "null" / "text" for a subsection
\* that is no mapping.
BuildRecord(how, missing, nulls) ==
    LET secs == SelectSeq(Sections, LAMBDA sec : how[sec] # "absent")
    IN  Object(secs, [i \in 1..Len(secs) |->
                         SectionValue(secs[i], how[secs[i]], missing, nulls)])

AllFull == [sec \in SectionSet |-> "full"]


SummarizeInit ==
    /\ pc = "record"
    /\ digest = NoDigest
    /\ \/ \E how \in [SectionSet -> {"absent", "empty", "full"}] :
             mof_entry = BuildRecord(how, {}, {})
       \/ \E missing \in SUBSET FieldsRead : mof_entry = BuildRecord(AllFull, missing, {})
       \/ \E f \in NumberFields : mof_entry = BuildRecord(AllFull, {}, {f})
       \/ \E sec \in SectionSet, bad \in {"null", "text"} :
             mof_entry = BuildRecord([AllFull EXCEPT ![sec] = bad], {}, {})
    /\ IdleParse /\ IdleScore /\ IdlePipeline /\ IdlePrompt

Summarize ==
    /\ pc = "record"
    /\ digest' = summarize_mof_for_application(mof_entry)
    /\ pc' = "summarized"
    /\ UNCHANGED <<mof_entry, parseVars, scoreVars, pipelineVars, promptVars>>

SummarizeNext == Summarize

SummarizeSpec == SummarizeInit /\ [][SummarizeNext]_vars

\* A material record: a mapping whose subsections, where present, are mappings.
IsMaterialRecord(e) ==
    /\ e.t = "obj"
    /\ \A i \in 1..Len(e.keys) : e.items[i].t = "obj"

Missing(e, f) == ~HasKey(e, f[1]) \/ ~HasKey(Lookup(e, f[1]), f[2])

ShownAs(f) ==
    CASE f = <<"article_info", "material_name">> -> "name"
      [] f = <<"article_info", "doi">> -> "doi"
      [] f = <<"reactants", "metal_node_name">> -> "metal"
      [] f = <<"reactants", "organic_linker_name">> -> "linker"
      [] f = <<"structure", "dimensionality">> -> "dim"
      [] f = <<"structure", "nanocrystalline">> -> "nano"
      [] f = <<"structure", "amorphous">> -> "amorph"
      [] f = <<"application", "application">> -> "application"
      [] f = <<"synthesis_conditions", "reaction_temperature_celsius">> -> "temp"
      [] f = <<"synthesis_conditions", "reaction_time_seconds">> -> "time_s"
      [] f = <<"synthesis_conditions", "stepwise_segmentation">> -> "steps"
      [] f = <<"surface_properties", "surface_area_m2_per_g">> -> "sa"
      [] f = <<"thermal_properties", "breakdown_temperature_celsius">> -> "tga"
      [] f = <<"chemical_properties", "ph_range_min">> -> "ph_min"
      [] OTHER -> "ph_max"

\* C7 as stated: every missing text field is shown as "not_specified" and
\* every missing numeric field as 0.
C7_AllNotSpecified ==
    (pc = "summarized" /\ IsMaterialRecord(mof_entry)) =>
        /\ digest.kind = "return"
        /\ \A f \in TextFields :
              Missing(mof_entry, f) => digest.shown[ShownAs(f)] = <<"not_specified">>
        /\ \A f \in NumberFields :
              Missing(mof_entry, f) => digest.shown[ShownAs(f)] = <<"0">>

\* C7 as amended: a missing material name is shown as "unnamed material";
\* every other missing text field as "not_specified", every missing numeric
\* field as 0.
C7_Sentinels ==
    (pc = "summarized" /\ IsMaterialRecord(mof_entry)) =>
        /\ digest.kind = "return"
        /\ \A f \in TextFields :
              Missing(mof_entry, f) =>
                  digest.shown[ShownAs(f)] =
                      IF f = <<"article_info", "material_name">>
                      THEN <<"unnamed material">> ELSE <<"not_specified">>
        /\ \A f \in NumberFields :
              Missing(mof_entry, f) => digest.shown[ShownAs(f)] = <<"0">>

C7_Witness ==
    /\ pc = "summarized"
    /\ HasKey(mof_entry, "article_info")
    /\ Lookup(mof_entry, "article_info").keys = <<"title">>
    /\ ~HasKey(Lookup(mof_entry, "chemical_properties"), "ph_range_max")
    /\ HasKey(Lookup(mof_entry, "chemical_properties"), "ph_range_min")
    /\ digest.shown.name = <<"unnamed material">>
    /\ digest.shown.doi = <<"not_specified">>
    /\ digest.shown.ph_max = <<"0">>
    /\ digest.shown.ph_min = <<Digit>>

(***************************************************************************)
(* The scoring rules of the Agent 3 prompt, in exact arithmetic: raw_score *)
(* is kept in hundredths (raw100 = 100 * raw_score).                       *)
(***************************************************************************)
\* raw_score with the thermal weight written 0.25: the weights sum to 110%.
raw_score_heavy_thermal(k) ==
    25 * k.stability_in_water + 20 * k.scalability + 20 * (100 - k.synthetic_complexity)
        + 20 * k.surface_area + 25 * k.thermal_stability
raw_score(k) ==
    25 * k.stability_in_water + 20 * k.scalability + 20 * (100 - k.synthetic_complexity)
        + 20 * k.surface_area + 15 * k.thermal_stability

\* round(n / d), d > 0: to the nearest integer, a tie to the even one.
Round(n, d) ==
    LET q == n \div d
        r == n % d
    IN  IF 2 * r < d THEN q
        ELSE IF 2 * r > d THEN q + 1
        ELSE IF q % 2 = 0 THEN q ELSE q + 1

Clip(x, lo, hi) == IF x < lo THEN lo ELSE IF x > hi THEN hi ELSE x

\* round(0.6 * raw_score + 20) = round((6 * raw100 + 20000) / 1000)
Remapped(raw100) == Round(6 * raw100 + 20000, 1000)
suitability_score_percent(raw100) == Clip(Remapped(raw100), 0, 100)

(***************************************************************************)
(* ScoreSpec: the formula applied to every KPI vector of a grid over       *)
(* 0..100.                                                                 *)
(***************************************************************************)
KpiNames == {"stability_in_water", "scalability", "synthetic_complexity",
             "surface_area", "thermal_stability"}
KpiGrid == {(100 * i) \div KpiSteps : i \in 0..KpiSteps}

ScoreInit ==
    /\ pc = "kpis"
    /\ kpi \in [KpiNames -> KpiGrid]
    /\ score = <<>>
    /\ IdleParse /\ IdleSummary /\ IdlePipeline /\ IdlePrompt

ComputeScore ==
    /\ pc = "kpis"
    /\ score' = [raw100 |-> raw_score(kpi),
                 remapped |-> Remapped(raw_score(kpi)),
                 suitability |-> suitability_score_percent(raw_score(kpi))]
    /\ pc' = "scored"
    /\ UNCHANGED <<kpi, parseVars, summaryVars, pipelineVars, promptVars>>

ScoreNext == ComputeScore

ScoreSpec == ScoreInit /\ [][ScoreNext]_vars

IrrelevantObject == <<"{", "is_mof_paper", ":", "false", "}">>
TwoMaterials == <<"[", "{", "surface_properties", ":", "{", "surface_area_m2_per_g", ":",
                  Digit, "}", "}", ",",
                  "{", "surface_properties", ":", "{", "surface_area_m2_per_g", ":",
                  Digit, Digit, "}", "}", "]">>
TextSection == <<"[", "{", "article_info", ":", "s", "}", "]">>
PipelineReplies == {<<"a">>, <<Digit>>, <<"[", "]">>, <<"[", Digit, "]">>,
                    <<"[", "{", "}", "]">>, TwoMaterials, TextSection,
                    RelevantObject, IrrelevantObject, <<"a">> \o RelevantObject,
                    ScoringObject}

RECURSIVE NumValue(_)
NumValue(text) ==
    IF text = <<>> THEN 0
    ELSE 10 * NumValue(SubSeq(text, 1, Len(text) - 1))
            + (IF text[Len(text)] = Digit THEN 1 ELSE 0)

\* a1.get("is_mof_paper", False), as the if statement reads it.
IsRelevantAlways(v) == TRUE
IsRelevant(v) == Truthy(DictGet(v, "is_mof_paper", Scalar("bool", <<"false">>)))

\* flatten_entry(e) for e in entries: entries must be iterable and every e
\* must have .items().
CanFlatten(v) == v.t = "arr" /\ \A i \in 1..Len(v.items) : v.items[i].t = "obj"

\* The "Surface area (m2/g)" cell of row i: to_numeric(..., errors="coerce")
\* then fillna(0).
SurfaceArea(e) ==
    LET surf == DictGet(e, "surface_properties", EmptyDict)
        cell == DictGet(surf, "surface_area_m2_per_g", None)
    IN  IF cell.t = "num" THEN NumValue(cell.text) ELSE 0

HasSurfaceAreaColumn(v) ==
    \E i \in 1..Len(v.items) :
        HasKey(DictGet(v.items[i], "surface_properties", EmptyDict), "surface_area_m2_per_g")

\* best_index (0-based): the first row of the largest surface area, 0 without
\* the column.
best_index(v) ==
    IF HasSurfaceAreaColumn(v)
    THEN Min({i \in 1..Len(v.items) :
                 \A j \in 1..Len(v.items) : SurfaceArea(v.items[i]) >= SurfaceArea(v.items[j])}) - 1
    ELSE 0

PipelineInit ==
    /\ pc = "extract"
    /\ doc = 1
    /\ a1 = NoResult /\ entries = NoResult /\ app_predictions = NoResult
    /\ rendered = <<>> /\ log = <<>> /\ cause = ""
    /\ IdleParse /\ IdleSummary /\ IdleScore /\ IdlePrompt

\* extract_text_from_pdf_filelike(file)
ExtractText ==
    /\ pc = "extract"
    /\ log' = Append(log, "extract")
    /\ pc' = "agent1"
    /\ UNCHANGED <<doc, a1, entries, app_predictions, rendered, cause,
                   parseVars, summaryVars, scoreVars, promptVars>>

\* a1 = agent1_filter_and_detect(file.name, snippet)
CallAgent1 ==
    /\ pc = "agent1"
    /\ log' = Append(log, "agent1")
    /\ \E reply \in PipelineReplies : a1' = agent1_filter_and_detect(reply)
    /\ IF a1'.kind = "raise"
       THEN pc' = "stopped" /\ cause' = "agent1_parse"
       ELSE pc' = "relevance" /\ cause' = cause
    /\ UNCHANGED <<doc, entries, app_predictions, rendered,
                   parseVars, summaryVars, scoreVars, promptVars>>

\* a1["article_word_count"] = ...; st.json(a1); if not a1.get(...): continue
CheckRelevance ==
    /\ pc = "relevance"
    /\ IF a1.val.t # "obj"
       THEN pc' = "stopped" /\ cause' = "a1_not_a_mapping" /\ a1' = a1
       ELSE /\ a1' = [a1 EXCEPT !.val =
                        LET d == DictPut(a1.val.keys, a1.val.items,
                                         "article_word_count", Num(Digit))
                        IN  Object(d.keys, d.items)]
            /\ cause' = cause
            /\ pc' = IF IsRelevant(a1.val) THEN "agent2" ELSE "end_of_document"
    /\ UNCHANGED <<doc, entries, app_predictions, rendered, log,
                   parseVars, summaryVars, scoreVars, promptVars>>

\* entries = agent2_extract_parameters(text)
CallAgent2 ==
    /\ pc = "agent2"
    /\ log' = Append(log, "agent2")
    /\ \E reply \in PipelineReplies : entries' = agent2_extract_parameters(reply)
    /\ IF entries'.kind = "raise"
       THEN pc' = "stopped" /\ cause' = "agent2_parse"
       ELSE pc' = "materials" /\ cause' = cause
    /\ UNCHANGED <<doc, a1, app_predictions, rendered,
                   parseVars, summaryVars, scoreVars, promptVars>>

\* st.json(entries); if not entries: continue
CheckMaterials ==
    /\ pc = "materials"
    /\ pc' = IF Truthy(entries.val) THEN "table" ELSE "end_of_document"
    /\ UNCHANGED <<doc, a1, entries, app_predictions, rendered, log, cause,
                   parseVars, summaryVars, scoreVars, promptVars>>

\* flatten, DataFrame, Excel export, best_entry = entries[best_index]
BuildTable ==
    /\ pc = "table"
    /\ IF CanFlatten(entries.val)
       THEN /\ mof_entry' = entries.val.items[best_index(entries.val) + 1]
            /\ pc' = "agent3" /\ cause' = cause
       ELSE /\ mof_entry' = mof_entry
            /\ pc' = "stopped" /\ cause' = "flatten"
    /\ UNCHANGED <<doc, a1, entries, app_predictions, rendered, log, digest,
                   parseVars, scoreVars, promptVars>>

\* pandas / openpyxl raise while the table is built or exported.
ExportFails ==
    /\ pc = "table"
    /\ CanFlatten(entries.val)
    /\ pc' = "stopped" /\ cause' = "export"
    /\ UNCHANGED <<doc, a1, entries, app_predictions, rendered, log,
                   parseVars, summaryVars, scoreVars, promptVars>>

\* app_predictions = agent3_predict_applications(best_entry)
CallAgent3 ==
    /\ pc = "agent3"
    /\ log' = Append(log, "agent3")
    /\ digest' = summarize_mof_for_application(mof_entry)
    /\ IF digest'.kind = "raise"
       THEN pc' = "stopped" /\ cause' = "summarize" /\ app_predictions' = app_predictions
       ELSE /\ \E reply \in PipelineReplies : app_predictions' = agent3_parse(reply)
            /\ pc' = "render" /\ cause' = cause
    /\ UNCHANGED <<doc, a1, entries, rendered, mof_entry, parseVars, scoreVars, promptVars>>

\* call_llm raises (the gateway is unreachable or errors).
GatewayFails ==
    /\ pc \in {"agent1", "agent2", "agent3"}
    /\ pc = "agent3" => summarize_mof_for_application(mof_entry).kind = "return"
    /\ log' = Append(log, pc)
    /\ pc' = "stopped" /\ cause' = "transport"
    /\ UNCHANGED <<doc, a1, entries, app_predictions, rendered,
                   parseVars, summaryVars, scoreVars, promptVars>>

\* st.json(app_predictions); the scoring table sits in try/except: pass
Render ==
    /\ pc = "render"
    /\ rendered' = <<app_predictions.val>>
    /\ pc' = "end_of_document"
    /\ UNCHANGED <<doc, a1, entries, app_predictions, log, cause,
                   parseVars, summaryVars, scoreVars, promptVars>>

\* for file in uploaded_files: the next file, or the end of the run
NextDocument ==
    /\ pc = "end_of_document"
    /\ IF doc < NumDocs
       THEN /\ doc' = doc + 1
            /\ pc' = "extract"
            /\ a1' = NoResult /\ entries' = NoResult /\ app_predictions' = NoResult
            /\ rendered' = <<>> /\ log' = <<>>
            /\ mof_entry' = None /\ digest' = NoDigest
       ELSE /\ pc' = "done"
            /\ UNCHANGED <<doc, a1, entries, app_predictions, rendered, log, summaryVars>>
    /\ UNCHANGED <<cause, parseVars, scoreVars, promptVars>>

PipelineNext ==
    \/ ExtractText \/ CallAgent1 \/ CheckRelevance \/ CallAgent2 \/ CheckMaterials
    \/ BuildTable \/ ExportFails \/ CallAgent3 \/ GatewayFails \/ Render \/ NextDocument

PipelineSpec == PipelineInit /\ [][PipelineNext]_vars

\* C4: a parse failure of Agent 1 or Agent 2 is caught for its document only,
\* so it never ends the run while later documents remain.
C4_BadDocumentNeverAbortsBatch ==
    (pc = "stopped" /\ cause \in {"agent1_parse", "agent2_parse"}) => doc = NumDocs

StageOrder == <<"extract", "agent1", "agent2", "agent3">>

\* The record Agent 1 returned marks the document relevant.
MarksRelevant(v) == HasKey(v, "is_mof_paper") /\ Truthy(Lookup(v, "is_mof_paper"))

C5_Stages ==
    /\ Len(log) <= Len(StageOrder)
    /\ log = SubSeq(StageOrder, 1, Len(log))
    /\ Contains(log, "agent2") =>
          /\ a1.kind = "return"
          /\ MarksRelevant(a1.val)
    /\ Contains(log, "agent3") =>
          /\ entries.kind = "return"
          /\ entries.val.t = "arr"
          /\ Len(entries.val.items) >= 1
          /\ \A i \in 1..Len(entries.val.items) : entries.val.items[i].t = "obj"
    /\ app_predictions.kind = "return" =>
          (pc = "render" \/ rendered = <<app_predictions.val>>)
    /\ pc = "end_of_document" =>
          \/ log = <<"extract", "agent1">> /\ ~MarksRelevant(a1.val)
          \/ log = <<"extract", "agent1", "agent2">> /\ ~Truthy(entries.val)
          \/ log = StageOrder /\ rendered = <<app_predictions.val>>

C5_Steps ==
    /\ log' # log => (doc' = doc /\ \E st \in 1..Len(StageOrder) : log' = Append(log, StageOrder[st]))
                     \/ (doc' = doc + 1 /\ log' = <<>>)
    /\ doc' # doc => (pc = "end_of_document" /\ doc' = doc + 1 /\ log' = <<>> /\ pc' = "extract")

\* C5: per document the stages run in the order Text Extractor, Agent 1,
\* Agent 2, Agent 3, each at most once; Agent 2 only after Agent 1 returned a
\* record marking the document relevant, Agent 3 only after Agent 2 returned at
\* least one material; what Agent 3 returns is rendered; and the next
\* document starts only when this one was rendered or skipped.
C5_StageOrder == []C5_Stages /\ [][C5_Steps]_vars

C5_Witness ==
    /\ pc = "end_of_document" /\ doc = NumDocs
    /\ log = StageOrder
    /\ app_predictions.path = "no_json_object"
    /\ rendered = <<app_predictions.val>>
    /\ Len(entries.val.items) = 2
    /\ mof_entry = entries.val.items[2]

(***************************************************************************)
(* The user message of Agent 1 and Agent 2.  An input text is a sequence   *)
(* of characters and character i of an input is the number i, so that a    *)
(* message shows which characters of the input it carries and in which     *)
(* order.  The fixed parts of a message are one token each.                *)
(***************************************************************************)
SnippetLimit == 3000
FullTextLimit == 12000

MaxShort == 3   \* short inputs have 0..MaxShort characters
MaxOver == 4    \* inputs around a limit have limit-MaxOver..limit+MaxOver characters

\* The system prompts, one token each.
Agent1System == <<"system prompt of Agent 1">>
Agent2System == <<"system prompt of Agent 2">>
Agent1Header(t) == <<"Title: ">> \o t \o <<"\n\nSnippet:\n">>
Agent2Header == <<"Article text (possibly truncated):\n">>

\* user = f"Title: {title}\n\nSnippet:\n{text_snippet}", the snippet not cut.
agent1_user_whole(t, text_snippet) == Agent1Header(t) \o text_snippet

\* user = f"Title: {title}\n\nSnippet:\n{text_snippet[:3000]}"
agent1_user(t, text_snippet) == Agent1Header(t) \o Slice(text_snippet, 0, SnippetLimit)

\* user = f"Article text (possibly truncated):\n{full_text[:12000]}"
agent2_user(full_text) == Agent2Header \o Slice(full_text, 0, FullTextLimit)

\* The list handed to call_llm: the system message, then the user message.
Messages(system, user) ==
    <<[role |-> "system", content |-> system], [role |-> "user", content |-> user]>>

Titles == {<<>>, <<"paper.pdf">>}
TextLengths ==
    (0..MaxShort)
        \cup ((SnippetLimit - MaxOver)..(SnippetLimit + MaxOver))
        \cup ((FullTextLimit - MaxOver)..(FullTextLimit + MaxOver))
TextOfLength(n) == [i \in 1..n |-> i]

PromptInit ==
    /\ pc = "input"
    /\ title \in Titles
    /\ input_text \in {TextOfLength(n) : n \in TextLengths}
    /\ messages = <<>>
    /\ IdleParse /\ IdleSummary /\ IdleScore /\ IdlePipeline

\* agent1_filter_and_detect(title, text_snippet) up to its call of call_llm
Agent1Sends ==
    /\ pc = "input"
    /\ agent' = 1
    /\ messages' = Messages(Agent1System, agent1_user(title, input_text))
    /\ pc' = "sent"
    /\ UNCHANGED <<raw, shape, lead, body, result, title, input_text,
                   summaryVars, scoreVars, pipelineVars>>

\* agent2_extract_parameters(full_text) up to its call of call_llm
Agent2Sends ==
    /\ pc = "input"
    /\ agent' = 2
    /\ messages' = Messages(Agent2System, agent2_user(input_text))
    /\ pc' = "sent"
    /\ UNCHANGED <<raw, shape, lead, body, result, title, input_text,
                   summaryVars, scoreVars, pipelineVars>>

PromptNext == Agent1Sends \/ Agent2Sends

PromptSpec == PromptInit /\ [][PromptNext]_vars

\* The text part of a user message that starts with header and carries the
\* first kept characters of text, in order, and nothing else.
CarriesPrefix(user, header, text, kept) ==
    /\ Len(user) = Len(header) + kept
    /\ SubSeq(user, 1, Len(header)) = header
    /\ \A i \in 1..kept : user[Len(header) + i] = text[i]

\* C11: for an input of any length both agents can build and send their
\* request (no input makes the construction fail), and the user message sent
\* is the agent's header followed by exactly the first 3000 characters of
\* the snippet (Agent 1) or the first 12000 characters of full_text
\* (Agent 2), all of the input when it is shorter.
C11_PrefixOnly ==
    /\ pc = "input" => ENABLED Agent1Sends /\ ENABLED Agent2Sends
    /\ pc = "sent" =>
          /\ Len(messages) = 2
          /\ messages[1].role = "system" /\ messages[2].role = "user"
          /\ agent = 1 =>
                CarriesPrefix(messages[2].content, Agent1Header(title), input_text,
                              Min({Len(input_text), SnippetLimit}))
          /\ agent = 2 =>
                CarriesPrefix(messages[2].content, Agent2Header, input_text,
                              Min({Len(input_text), FullTextLimit}))

\* Agent 2 was given more than 12000 characters and sent the first 12000.
C11_Witness ==
    /\ pc = "sent"
    /\ agent = 2
    /\ Len(input_text) > FullTextLimit
    /\ Len(messages[2].content) = Len(Agent2Header) + FullTextLimit
    /\ messages[2].content[Len(messages[2].content)] = FullTextLimit

====
